---- MODULE Spec2Model ----
(***************************************************************************)
(* The drawing application's view-model (component App): the shape list,   *)
(* the draft shape of the gesture in progress, the selection, the pending  *)
(* style of the side panel and the localStorage entry 'drawing'.           *)
(*                                                                         *)
(* Every handler runs to completion and the component re-renders before    *)
(* the next event is dispatched, so one action is one handler call.  A     *)
(* handler that returns at once (pointer-down on a shape, an event with    *)
(* no pointer position, a move or pointer-up with no draft) is a           *)
(* stuttering step.  The canvas width is left out: no handler reads it.    *)
(* The Transformer resizes the Konva node only; no handler copies the      *)
(* node's size back into the shape list.                                   *)
(*                                                                         *)
(* Numbers: pointer coordinates are integers.  Math.sqrt(n) and            *)
(* Math.hypot(dx, dy) are kept exact as Sqrt(n), the square root of the    *)
(* integer n, and compared through their squares.  uuidv4 is a generator   *)
(* of fresh values: the ids are 1, 2, ... in the order they are drawn.     *)
(***************************************************************************)
EXTENDS Integers, Sequences, FiniteSets, TLC

VARIABLES
    shapes,       \* useState<Shape[]>: the committed shape list
    tool,         \* useState<ShapeType>
    selectedId,   \* useState<string | null>
    strokeColor,  \* pending style, four useState cells
    fillColor,
    strokeWidth,
    strokeStyle,
    isDrawing,    \* useState(false)
    newShape,     \* useState<Shape | null>: the draft
    store,        \* localStorage entry 'drawing'
    nextId,       \* number of uuids handed out so far by uuidv4
    crashed,      \* the component threw while mounting (nothing is rendered)
    edits         \* number of style inputs made in the side panel so far

vars == <<shapes, tool, selectedId, strokeColor, fillColor, strokeWidth,
          strokeStyle, isDrawing, newShape, store, nextId, crashed, edits>>

----------------------------------------------------------------------------
(* Bounds and input domains *)

MaxId == 2            \* uuids handed out in one behaviour
MaxCoord == 6         \* largest coordinate a dragged line may reach
MaxEdits == 1         \* style inputs made in the side panel in one behaviour

Pt(px, py) == [x |-> px, y |-> py]

\* Pointer positions of the gesture: the differences between them give
\* extents of both signs below (0, 1, 4), at (5) and above the threshold.
Points == {Pt(0, 0), Pt(5, 5), Pt(5, 0), Pt(0, 5), Pt(4, 0)}

\* Pointer positions of the specifications that run every handler.
FewPoints == {Pt(0, 0), Pt(5, 5)}

\* Node positions reported at the end of a drag.
DragPoints == {Pt(1, 1)}

Tools == {"rectangle", "circle", "line"}
StrokeColors == {"#000000", "#ff0000"}
FillColors == {"#88ccff", "#ffff00"}
StrokeWidths == {2, 5}
StrokeStyles == {"solid", "dashed"}

----------------------------------------------------------------------------
(* Values *)

Null == [type |-> "null"]     \* newShape = null
NoId == 0                     \* selectedId = null
Threshold == 5                \* the discard threshold of handleMouseUp

Abs(n) == IF n < 0 THEN -n ELSE n

\* The double Math.sqrt(n) for an integer n >= 0.
Sqrt(n) == [sqrt |-> n]

\* Math.hypot(dx, dy)
Hypot(dx, dy) == Sqrt(dx * dx + dy * dy)

\* r < k for r = Sqrt(n) and an integer k >= 0
SqrtLess(r, k) == r.sqrt < k * k

\* { ...s, ...attrs }
Spread(s, attrs) ==
    [k \in (DOMAIN s) \cup (DOMAIN attrs) |->
        IF k \in DOMAIN attrs THEN attrs[k] ELSE s[k]]

----------------------------------------------------------------------------
(* JSON text of the store entry *)

NoEntry == [entry |-> "absent"]           \* getItem returns null
EmptyText == [json |-> "empty"]           \* the empty string
MalformedText == [json |-> "malformed"]   \* not JSON: JSON.parse throws
NullText == [json |-> "null"]             \* the JSON text null

\* Own properties of a shape object in insertion order (the object literals
\* of handleMouseDown; a spread keeps the order).
KeyOrder(s) ==
    IF s.type = "rectangle"
    THEN <<"id", "type", "x", "y", "width", "height", "fill", "stroke",
           "strokeWidth", "strokeStyle">>
    ELSE IF s.type = "circle"
    THEN <<"id", "type", "x", "y", "radius", "fill", "stroke",
           "strokeWidth", "strokeStyle">>
    ELSE <<"id", "type", "x", "y", "x2", "y2", "stroke", "strokeWidth",
           "strokeStyle">>

NumberKeys == {"x", "y", "width", "height", "radius", "x2", "y2", "strokeWidth"}

\* JSON.stringify of one property value: a number is written as its
\* shortest round-tripping decimal, a string as a quoted string.
ValueText(k, v) == IF k \in NumberKeys THEN [num |-> v] ELSE [str |-> v]

\* JSON.stringify of one shape: its members in insertion order.
ObjectText(s) ==
    LET keys == KeyOrder(s)
    IN [i \in 1..Len(keys) |-> <<keys[i], ValueText(keys[i], s[keys[i]])>>]

\* JSON.stringify(shapes)
Stringify(list) ==
    [json |-> "array", items |-> [i \in 1..Len(list) |-> ObjectText(list[i])]]

ParseValue(vt) == IF "num" \in DOMAIN vt THEN vt.num ELSE vt.str

ParseObject(members) ==
    [k \in {members[i][1] : i \in 1..Len(members)} |->
        LET i == CHOOSE j \in 1..Len(members) :
                    /\ members[j][1] = k
                    /\ \A l \in (j+1)..Len(members) : members[l][1] # k
        IN ParseValue(members[i][2])]

\* JSON.parse of an array text
ParseArray(text) == [i \in 1..Len(text.items) |-> ParseObject(text.items[i])]

\* Mounting throws: JSON.parse throws on a text that is not JSON, and the
\* first render throws at shapes.map when the text parsed to null.
MountThrows(saved) ==
    /\ saved # NoEntry
    /\ saved # EmptyText
    /\ saved.json \in {"malformed", "null"}


\* The initializer of shapes ignoring the store entry.
Load_AlwaysEmpty(saved) == <<>>

\* The initializer of shapes: saved ? JSON.parse(saved) : []
\* (no list exists when mounting throws; the empty list stands for it).
Load(saved) ==
    IF saved = NoEntry \/ saved = EmptyText THEN <<>>
    ELSE IF saved.json = "array" THEN ParseArray(saved)
    ELSE <<>>

----------------------------------------------------------------------------
(* The component's state after mounting with the store entry saved *)

\* The useState initial values of App, but for the shape list.
InitialState ==
    [tool |-> "rectangle", selectedId |-> NoId, strokeColor |-> "#000000",
     fillColor |-> "#88ccff", strokeWidth |-> 2, strokeStyle |-> "solid",
     isDrawing |-> FALSE, newShape |-> Null]

\* The component mounted with the store entry saved, before any event.
Mounted(saved) ==
    /\ store = saved
    /\ crashed = MountThrows(saved)
    /\ shapes = Load(saved)
    /\ tool = InitialState.tool
    /\ selectedId = InitialState.selectedId
    /\ strokeColor = InitialState.strokeColor
    /\ fillColor = InitialState.fillColor
    /\ strokeWidth = InitialState.strokeWidth
    /\ strokeStyle = InitialState.strokeStyle
    /\ isDrawing = InitialState.isDrawing
    /\ newShape = InitialState.newShape
    /\ nextId = 0
    /\ edits = 0

\* First start: nothing was ever saved.
Init == Mounted(NoEntry)

\* Store entries a start may find: none, the empty string, a text that is
\* not JSON, the JSON text null, and a saved empty list.
InitialStores == {NoEntry, EmptyText, MalformedText, NullText, Stringify(<<>>)}

InitLoad == \E saved \in InitialStores : Mounted(saved)

----------------------------------------------------------------------------
(* Handlers *)

\* updateShape writing attrs into every shape of the list.
updateShape_EveryShape(id, attrs) ==
    [i \in 1..Len(shapes) |-> Spread(shapes[i], attrs)]

\* updateShape(id, attrs)
updateShape(id, attrs) ==
    [i \in 1..Len(shapes) |->
        IF shapes[i].id = id THEN Spread(shapes[i], attrs) ELSE shapes[i]]


\* DraftShape with the initial style instead of the pending one.
DraftShape_InitialStyle(id, point) ==
    IF tool = "rectangle"
    THEN [id |-> id, type |-> "rectangle", x |-> point.x, y |-> point.y,
          width |-> 0, height |-> 0, fill |-> "#88ccff",
          stroke |-> "#000000", strokeWidth |-> 2, strokeStyle |-> "solid"]
    ELSE IF tool = "circle"
    THEN [id |-> id, type |-> "circle", x |-> point.x, y |-> point.y,
          radius |-> Sqrt(0), fill |-> "#88ccff",
          stroke |-> "#000000", strokeWidth |-> 2, strokeStyle |-> "solid"]
    ELSE [id |-> id, type |-> "line", x |-> point.x, y |-> point.y,
          x2 |-> point.x, y2 |-> point.y,
          stroke |-> "#000000", strokeWidth |-> 2, strokeStyle |-> "solid"]

\* The draft built by handleMouseDown for the current tool.
DraftShape(id, point) ==
    IF tool = "rectangle"
    THEN [id |-> id, type |-> "rectangle", x |-> point.x, y |-> point.y,
          width |-> 0, height |-> 0, fill |-> fillColor,
          stroke |-> strokeColor, strokeWidth |-> strokeWidth,
          strokeStyle |-> strokeStyle]
    ELSE IF tool = "circle"
    THEN [id |-> id, type |-> "circle", x |-> point.x, y |-> point.y,
          radius |-> Sqrt(0), fill |-> fillColor,
          stroke |-> strokeColor, strokeWidth |-> strokeWidth,
          strokeStyle |-> strokeStyle]
    ELSE [id |-> id, type |-> "line", x |-> point.x, y |-> point.y,
          x2 |-> point.x, y2 |-> point.y,
          stroke |-> strokeColor, strokeWidth |-> strokeWidth,
          strokeStyle |-> strokeStyle]

\* handleMouseDown putting the draft into the shape list at once.
handleMouseDown_AppendsDraft(point) ==
    /\ ~crashed
    /\ nextId < MaxId
    /\ nextId' = nextId + 1
    /\ newShape' = DraftShape(nextId + 1, point)
    /\ shapes' = Append(shapes, DraftShape(nextId + 1, point))
    /\ isDrawing' = TRUE
    /\ selectedId' = NoId
    /\ UNCHANGED <<tool, strokeColor, fillColor, strokeWidth, strokeStyle,
                   store, crashed, edits>>

\* handleMouseDown committing the draft in progress before starting anew.
handleMouseDown_CommitsEarlier(point) ==
    /\ ~crashed
    /\ nextId < MaxId
    /\ nextId' = nextId + 1
    /\ newShape' = DraftShape(nextId + 1, point)
    /\ shapes' = IF newShape # Null THEN Append(shapes, newShape) ELSE shapes
    /\ isDrawing' = TRUE
    /\ selectedId' = NoId
    /\ UNCHANGED <<tool, strokeColor, fillColor, strokeWidth, strokeStyle,
                   store, crashed, edits>>

\* handleMouseDown on the empty stage at a resolvable pointer position
\* (on a shape, or with no position, the handler returns at once).
handleMouseDown(point) ==
    /\ ~crashed
    /\ nextId < MaxId
    /\ nextId' = nextId + 1
    /\ newShape' = DraftShape(nextId + 1, point)
    /\ isDrawing' = TRUE
    /\ selectedId' = NoId
    /\ UNCHANGED <<shapes, tool, strokeColor, fillColor, strokeWidth,
                   strokeStyle, store, crashed, edits>>


\* MovedShape adding each move to the extent reached so far.
MovedShape_Accumulating(s, point) ==
    IF s.type = "rectangle"
    THEN Spread(s, [width |-> s.width + (point.x - s.x),
                    height |-> s.height + (point.y - s.y)])
    ELSE IF s.type = "circle"
    THEN LET dx == point.x - s.x
             dy == point.y - s.y
         IN Spread(s, [radius |-> Sqrt(s.radius.sqrt + dx * dx + dy * dy)])
    ELSE Spread(s, [x2 |-> point.x, y2 |-> point.y, x |-> s.x2, y |-> s.y2])

\* The draft recomputed by handleMouseMove.
MovedShape(s, point) ==
    IF s.type = "rectangle"
    THEN Spread(s, [width |-> point.x - s.x, height |-> point.y - s.y])
    ELSE IF s.type = "circle"
    THEN LET dx == point.x - s.x
             dy == point.y - s.y
         IN Spread(s, [radius |-> Sqrt(dx * dx + dy * dy)])
    ELSE Spread(s, [x2 |-> point.x, y2 |-> point.y])

\* handleMouseMove anywhere on the stage at a resolvable pointer position.
handleMouseMove(point) ==
    /\ ~crashed
    /\ IF ~isDrawing \/ newShape = Null
       THEN UNCHANGED newShape
       ELSE newShape' = MovedShape(newShape, point)
    /\ UNCHANGED <<shapes, tool, selectedId, strokeColor, fillColor,
                   strokeWidth, strokeStyle, isDrawing, store, nextId,
                   crashed, edits>>

\* TooSmall testing rectangles only.
TooSmall_RectangleOnly(s) ==
    s.type = "rectangle" /\ (Abs(s.width) < 5 \/ Abs(s.height) < 5)

\* TooSmall discarding an extent of exactly the threshold too.
TooSmall_Inclusive(s) ==
    \/ s.type = "rectangle" /\ (Abs(s.width) <= 5 \/ Abs(s.height) <= 5)
    \/ s.type = "circle" /\ s.radius.sqrt <= 25
    \/ s.type = "line" /\ Hypot(s.x2 - s.x, s.y2 - s.y).sqrt <= 25

\* The discard test of handleMouseUp.
TooSmall(s) ==
    \/ s.type = "rectangle" /\ (Abs(s.width) < Threshold \/ Abs(s.height) < Threshold)
    \/ s.type = "circle" /\ SqrtLess(s.radius, Threshold)
    \/ s.type = "line" /\ SqrtLess(Hypot(s.x2 - s.x, s.y2 - s.y), Threshold)


\* Committed without the normalisation of negative extents.
Committed_Unnormalised(s) == s

\* The shape handleMouseUp appends for a draft that is kept.
Committed(s) ==
    IF s.type = "rectangle"
    THEN LET x1 == IF s.width < 0 THEN s.x + s.width ELSE s.x
             w1 == IF s.width < 0 THEN Abs(s.width) ELSE s.width
             y1 == IF s.height < 0 THEN s.y + s.height ELSE s.y
             h1 == IF s.height < 0 THEN Abs(s.height) ELSE s.height
         IN Spread(s, [x |-> x1, y |-> y1, width |-> w1, height |-> h1])
    ELSE s


\* handleMouseUp appending the draft without ending the gesture.
handleMouseUp_KeepsDraft ==
    /\ ~crashed
    /\ isDrawing /\ newShape # Null
    /\ shapes' = IF TooSmall(newShape) THEN shapes
                 ELSE Append(shapes, Committed(newShape))
    /\ UNCHANGED <<newShape, isDrawing, tool, selectedId, strokeColor,
                   fillColor, strokeWidth, strokeStyle, store, nextId,
                   crashed, edits>>

\* handleMouseUp leaving the drafting flag set when it discards the draft.
handleMouseUp_DiscardKeepsFlag ==
    /\ ~crashed
    /\ IF ~isDrawing \/ newShape = Null
       THEN UNCHANGED <<shapes, newShape, isDrawing>>
       ELSE IF TooSmall(newShape)
       THEN /\ newShape' = Null
            /\ UNCHANGED <<shapes, isDrawing>>
       ELSE /\ shapes' = Append(shapes, Committed(newShape))
            /\ newShape' = Null
            /\ isDrawing' = FALSE
    /\ UNCHANGED <<tool, selectedId, strokeColor, fillColor, strokeWidth,
                   strokeStyle, store, nextId, crashed, edits>>

\* handleMouseUp
handleMouseUp ==
    /\ ~crashed
    /\ IF ~isDrawing \/ newShape = Null
       THEN UNCHANGED <<shapes, newShape, isDrawing>>
       ELSE /\ shapes' = IF TooSmall(newShape) THEN shapes
                         ELSE Append(shapes, Committed(newShape))
            /\ newShape' = Null
            /\ isDrawing' = FALSE
    /\ UNCHANGED <<tool, selectedId, strokeColor, fillColor, strokeWidth,
                   strokeStyle, store, nextId, crashed, edits>>

\* saveDrawing
saveDrawing ==
    /\ ~crashed
    /\ UNCHANGED <<shapes, tool, selectedId, strokeColor, fillColor,
                   strokeWidth, strokeStyle, isDrawing, newShape, nextId,
                   crashed, edits>>
    /\ store' = Stringify(shapes)

\* downloadDrawing writing the exported text to the store entry as well.
downloadDrawing_Saves ==
    /\ ~crashed
    /\ UNCHANGED <<shapes, tool, selectedId, strokeColor, fillColor,
                   strokeWidth, strokeStyle, isDrawing, newShape, nextId,
                   crashed, edits>>
    /\ store' = Stringify(shapes)

\* downloadDrawing: the blob goes to the browser's download, no state changes
downloadDrawing ==
    /\ ~crashed
    /\ UNCHANGED <<shapes, tool, selectedId, strokeColor, fillColor,
                   strokeWidth, strokeStyle, isDrawing, newShape, store,
                   nextId, crashed, edits>>

\* clearDrawing emptying the list but leaving the store entry.
clearDrawing_KeepsStore ==
    /\ ~crashed
    /\ shapes' = <<>>
    /\ UNCHANGED <<store, tool, selectedId, strokeColor, fillColor,
                   strokeWidth, strokeStyle, isDrawing, newShape, nextId,
                   crashed, edits>>

\* clearDrawing
clearDrawing ==
    /\ ~crashed
    /\ shapes' = <<>>
    /\ store' = NoEntry
    /\ UNCHANGED <<tool, selectedId, strokeColor, fillColor, strokeWidth,
                   strokeStyle, isDrawing, newShape, nextId, crashed, edits>>

\* applyStyleToSelected writing the pending fill whatever the shape's kind.
applyStyleToSelected_AlwaysFill ==
    /\ ~crashed
    /\ IF selectedId = NoId
       THEN UNCHANGED shapes
       ELSE shapes' = updateShape(selectedId,
                         [stroke |-> strokeColor, strokeWidth |-> strokeWidth,
                          strokeStyle |-> strokeStyle, fill |-> fillColor])
    /\ UNCHANGED <<tool, selectedId, strokeColor, fillColor, strokeWidth,
                   strokeStyle, isDrawing, newShape, store, nextId, crashed, edits>>

\* applyStyleToSelected
applyStyleToSelected ==
    /\ ~crashed
    /\ IF selectedId = NoId
       THEN UNCHANGED shapes
       ELSE LET found == {i \in 1..Len(shapes) : shapes[i].id = selectedId}
                stroke == [stroke |-> strokeColor, strokeWidth |-> strokeWidth,
                           strokeStyle |-> strokeStyle]
                updates == IF \E i \in found : shapes[i].type # "line"
                           THEN Spread(stroke, [fill |-> fillColor])
                           ELSE stroke
            IN shapes' = updateShape(selectedId, updates)
    /\ UNCHANGED <<tool, selectedId, strokeColor, fillColor, strokeWidth,
                   strokeStyle, isDrawing, newShape, store, nextId, crashed, edits>>


\* onClick leaving the pending stroke width as it was.
onClick_KeepsWidth(i) ==
    /\ ~crashed
    /\ i \in 1..Len(shapes)
    /\ LET shape == shapes[i]
       IN /\ selectedId' = shape.id
          /\ strokeColor' = shape.stroke
          /\ strokeStyle' = shape.strokeStyle
          /\ fillColor' = IF shape.type # "line" THEN shape.fill ELSE fillColor
    /\ UNCHANGED <<shapes, tool, strokeWidth, isDrawing, newShape, store,
                   nextId, crashed, edits>>

\* onClick of the i-th rendered shape
onClick(i) ==
    /\ ~crashed
    /\ i \in 1..Len(shapes)
    /\ LET shape == shapes[i]
       IN /\ selectedId' = shape.id
          /\ strokeColor' = shape.stroke
          /\ strokeWidth' = shape.strokeWidth
          /\ strokeStyle' = shape.strokeStyle
          /\ fillColor' = IF shape.type # "line" THEN shape.fill ELSE fillColor
          /\ UNCHANGED <<shapes, tool, isDrawing, newShape, store, nextId, crashed, edits>>

\* onDragEnd moving the start point of a line only.
onDragEnd_MovesStartOnly(i, pos) ==
    /\ ~crashed
    /\ i \in 1..Len(shapes)
    /\ LET shape == shapes[i]
       IN /\ IF shape.type = "line"
             THEN /\ shape.x + pos.x <= MaxCoord
                  /\ shape.y + pos.y <= MaxCoord
                  /\ shapes' = updateShape(shape.id,
                                  [x |-> shape.x + pos.x, y |-> shape.y + pos.y])
             ELSE shapes' = updateShape(shape.id, [x |-> pos.x, y |-> pos.y])
          /\ UNCHANGED <<tool, selectedId, strokeColor, fillColor, strokeWidth,
                   strokeStyle, isDrawing, newShape, store, nextId, crashed, edits>>

\* onDragEnd of the i-th rendered shape; pos is the node's position
onDragEnd(i, pos) ==
    /\ ~crashed
    /\ i \in 1..Len(shapes)
    /\ LET shape == shapes[i]
       IN /\ IF shape.type = "line"
             THEN /\ shape.x + pos.x <= MaxCoord
                  /\ shape.y + pos.y <= MaxCoord
                  /\ shape.x2 + pos.x <= MaxCoord
                  /\ shape.y2 + pos.y <= MaxCoord
                  /\ shapes' = updateShape(shape.id,
                                  [x |-> shape.x + pos.x, y |-> shape.y + pos.y,
                                   x2 |-> shape.x2 + pos.x, y2 |-> shape.y2 + pos.y])
             ELSE shapes' = updateShape(shape.id, [x |-> pos.x, y |-> pos.y])
          /\ UNCHANGED <<tool, selectedId, strokeColor, fillColor, strokeWidth,
                   strokeStyle, isDrawing, newShape, store, nextId, crashed, edits>>

\* The side panel's inputs
setTool(t) ==
    /\ ~crashed
    /\ tool' = t
    /\ UNCHANGED <<shapes, selectedId, strokeColor, fillColor, strokeWidth,
                   strokeStyle, isDrawing, newShape, store, nextId, crashed, edits>>

setStrokeColor(c) ==
    /\ ~crashed
    /\ edits < MaxEdits
    /\ edits' = edits + 1
    /\ strokeColor' = c
    /\ UNCHANGED <<shapes, tool, selectedId, fillColor, strokeWidth,
                   strokeStyle, isDrawing, newShape, store, nextId, crashed>>

\* the fill input is rendered only while the tool is not line
setFillColor(c) ==
    /\ ~crashed
    /\ edits < MaxEdits
    /\ edits' = edits + 1
    /\ tool # "line"
    /\ fillColor' = c
    /\ UNCHANGED <<shapes, tool, selectedId, strokeColor, strokeWidth,
                   strokeStyle, isDrawing, newShape, store, nextId, crashed>>

setStrokeWidth(w) ==
    /\ ~crashed
    /\ edits < MaxEdits
    /\ edits' = edits + 1
    /\ strokeWidth' = w
    /\ UNCHANGED <<shapes, tool, selectedId, strokeColor, fillColor,
                   strokeStyle, isDrawing, newShape, store, nextId, crashed>>

setStrokeStyle(s) ==
    /\ ~crashed
    /\ edits < MaxEdits
    /\ edits' = edits + 1
    /\ strokeStyle' = s
    /\ UNCHANGED <<shapes, tool, selectedId, strokeColor, fillColor,
                   strokeWidth, isDrawing, newShape, store, nextId, crashed>>

\* Reloading the page: the component mounts again from the store.
Restart ==
    /\ UNCHANGED <<store, nextId, edits>>
    /\ tool' = InitialState.tool
    /\ selectedId' = InitialState.selectedId
    /\ strokeColor' = InitialState.strokeColor
    /\ fillColor' = InitialState.fillColor
    /\ strokeWidth' = InitialState.strokeWidth
    /\ strokeStyle' = InitialState.strokeStyle
    /\ isDrawing' = InitialState.isDrawing
    /\ newShape' = InitialState.newShape
    /\ crashed' = MountThrows(store)
    /\ shapes' = Load(store)

\* Every handler but the style inputs of the side panel.
Next ==
    \/ \E p \in FewPoints : handleMouseDown(p)
    \/ \E p \in FewPoints : handleMouseMove(p)
    \/ handleMouseUp
    \/ \E i \in 1..Len(shapes) : onClick(i)
    \/ \E i \in 1..Len(shapes), p \in DragPoints : onDragEnd(i, p)
    \/ applyStyleToSelected
    \/ saveDrawing
    \/ downloadDrawing
    \/ clearDrawing
    \/ \E t \in Tools : setTool(t)
    \/ Restart

Spec == Init /\ [][Next]_vars

\* The drawing gesture alone, over all pointer positions.
NextGesture ==
    \/ \E p \in Points : handleMouseDown(p)
    \/ \E p \in Points : handleMouseMove(p)
    \/ handleMouseUp
    \/ \E t \in Tools : setTool(t)

SpecGesture == Init /\ [][NextGesture]_vars

\* Drawing, selecting and styling, with the style inputs of the side panel.
NextStyle ==
    \/ \E p \in FewPoints : handleMouseDown(p)
    \/ \E p \in FewPoints : handleMouseMove(p)
    \/ handleMouseUp
    \/ \E i \in 1..Len(shapes) : onClick(i)
    \/ applyStyleToSelected
    \/ \E t \in Tools : setTool(t)
    \/ \E c \in StrokeColors : setStrokeColor(c)
    \/ \E c \in FillColors : setFillColor(c)
    \/ \E w \in StrokeWidths : setStrokeWidth(w)
    \/ \E s \in StrokeStyles : setStrokeStyle(s)

SpecStyle == Init /\ [][NextStyle]_vars

\* Every handler but the style inputs, started on any store entry.
SpecLoad == InitLoad /\ [][Next]_vars

\* Every handler, the style inputs included, with the rectangle tool.
NextStore ==
    \/ \E p \in FewPoints : handleMouseDown(p)
    \/ \E p \in FewPoints : handleMouseMove(p)
    \/ handleMouseUp
    \/ \E i \in 1..Len(shapes) : onClick(i)
    \/ \E i \in 1..Len(shapes), p \in DragPoints : onDragEnd(i, p)
    \/ applyStyleToSelected
    \/ saveDrawing
    \/ downloadDrawing
    \/ clearDrawing
    \/ \E c \in StrokeColors : setStrokeColor(c)
    \/ \E c \in FillColors : setFillColor(c)
    \/ \E w \in StrokeWidths : setStrokeWidth(w)
    \/ \E s \in StrokeStyles : setStrokeStyle(s)
    \/ Restart

SpecStore == Init /\ [][NextStore]_vars

----------------------------------------------------------------------------
(* Properties *)

Min(a, b) == IF a < b THEN a ELSE b

Drafting == isDrawing /\ newShape # Null

Rectangles == {i \in 1..Len(shapes) : shapes[i].type = "rectangle"}
Circles == {i \in 1..Len(shapes) : shapes[i].type = "circle"}
Lines == {i \in 1..Len(shapes) : shapes[i].type = "line"}

\* Squared distance between the two endpoints of a line.
LengthSquared(s) == (s.x2 - s.x) * (s.x2 - s.x) + (s.y2 - s.y) * (s.y2 - s.y)

\* C1: every rectangle of the shape list has width >= 0 and height >= 0,
\* whatever sequence of pointer, select, apply-style, drag, save, clear and
\* reload events led to it; negative extents live in the draft only.
C1_ListRectanglesNonNegative ==
    \A i \in Rectangles : shapes[i].width >= 0 /\ shapes[i].height >= 0

\* A rectangle is in the list while a rectangle draft has negative extents.
C1_Witness ==
    /\ Rectangles # {}
    /\ newShape # Null
    /\ newShape.type = "rectangle"
    /\ newShape.width < 0
    /\ newShape.height < 0

ExtentBelow(s, k) ==
    \/ s.type = "rectangle" /\ (Abs(s.width) < k \/ Abs(s.height) < k)
    \/ s.type = "circle" /\ s.radius.sqrt < k * k
    \/ s.type = "line" /\ LengthSquared(s) < k * k

ExtentExactly(s, k) ==
    \/ s.type = "rectangle" /\ Min(Abs(s.width), Abs(s.height)) = k
    \/ s.type = "circle" /\ s.radius.sqrt = k * k
    \/ s.type = "line" /\ LengthSquared(s) = k * k

\* The list grew by exactly one shape, which has the id of the draft d.
AppendedDraft(d) ==
    /\ Len(shapes') = Len(shapes) + 1
    /\ SubSeq(shapes', 1, Len(shapes)) = shapes
    /\ shapes'[Len(shapes')].id = d.id
    /\ shapes'[Len(shapes')].type = d.type

\* C3: a pointer-up while drafting discards a draft of extent below 5 and
\* leaves the list unchanged, and appends a draft of extent exactly 5.
C3_DiscardBelowFiveKeepFive ==
    [][(handleMouseUp /\ Drafting) =>
          /\ ExtentBelow(newShape, 5) => shapes' = shapes
          /\ ExtentExactly(newShape, 5) => AppendedDraft(newShape)]_vars

\* The first draft was not appended and the second, a circle of radius
\* exactly 5, was.
C3_Witness ==
    /\ nextId = 2
    /\ newShape = Null
    /\ Len(shapes) = 1
    /\ shapes[1].id = 2
    /\ shapes[1].type = "circle"
    /\ shapes[1].radius = Sqrt(25)

\* The example of the specification: anchor (100, 100), width -40, height 30.
ExampleDraft ==
    [id |-> 1, type |-> "rectangle", x |-> 100, y |-> 100, width |-> -40,
     height |-> 30, fill |-> "#88ccff", stroke |-> "#000000",
     strokeWidth |-> 2, strokeStyle |-> "solid"]

\* C4: a committed rectangle draft is appended as the box between the
\* anchor and the last pointer position: x = min(ax, ax + w),
\* y = min(ay, ay + h), width = |w|, height = |h|, everything else as in
\* the draft; a circle or line is appended exactly as drafted.
C4_CommitNormalisesRectangle ==
    [][(handleMouseUp /\ Drafting /\ ~ExtentBelow(newShape, 5)) =>
          /\ AppendedDraft(newShape)
          /\ LET d == newShape
                 c == shapes'[Len(shapes')]
             IN IF d.type = "rectangle"
                THEN /\ c.x = Min(d.x, d.x + d.width)
                     /\ c.y = Min(d.y, d.y + d.height)
                     /\ c.width = Abs(d.width)
                     /\ c.height = Abs(d.height)
                     /\ \A k \in {"id", "fill", "stroke", "strokeWidth", "strokeStyle"} :
                           c[k] = d[k]
                     /\ DOMAIN c = DOMAIN d
                ELSE c = d
          /\ Committed(ExampleDraft).x = 60
          /\ Committed(ExampleDraft).y = 100
          /\ Committed(ExampleDraft).width = 40
          /\ Committed(ExampleDraft).height = 30]_vars

\* A rectangle was committed, and a second rectangle draft of width -5 and
\* height 5 is about to be.
C4_Witness ==
    /\ \E i \in Rectangles : shapes[i].width = 5 /\ shapes[i].height = 5
    /\ newShape # Null
    /\ newShape.type = "rectangle"
    /\ newShape.width = -5
    /\ newShape.height = 5

\* C5: pointer-down anchors the draft at its point, and every pointer-move
\* to a point p keeps the anchor and sets the geometry from the anchor and
\* p alone: width = p.x - x, height = p.y - y; x2 = p.x, y2 = p.y;
\* radius^2 = (p.x - x)^2 + (p.y - y)^2.
C5_MoveDependsOnAnchorAndPoint ==
    [][/\ \A p \in Points :
            handleMouseDown(p) => newShape'.x = p.x /\ newShape'.y = p.y
       /\ \A p \in Points :
            (handleMouseMove(p) /\ Drafting) =>
               /\ newShape'.x = newShape.x
               /\ newShape'.y = newShape.y
               /\ newShape'.id = newShape.id
               /\ newShape'.type = newShape.type
               /\ newShape.type = "rectangle" =>
                     /\ newShape'.width = p.x - newShape.x
                     /\ newShape'.height = p.y - newShape.y
               /\ newShape.type = "line" =>
                     /\ newShape'.x2 = p.x
                     /\ newShape'.y2 = p.y
               /\ newShape.type = "circle" =>
                     newShape'.radius.sqrt =
                        (p.x - newShape.x) * (p.x - newShape.x)
                        + (p.y - newShape.y) * (p.y - newShape.y)]_vars

\* A circle draft anchored at (5, 5) with the pointer moved to (4, 0):
\* radius^2 = 1 + 25.
C5_Witness ==
    /\ Drafting
    /\ newShape.type = "circle"
    /\ newShape.x = 5
    /\ newShape.y = 5
    /\ newShape.radius = Sqrt(26)

\* C6: pointer-down on the empty canvas at p builds a draft of the current
\* tool's kind anchored at p with zero extent, carrying the pending stroke
\* color, width and style (and the pending fill unless the tool is line),
\* starts drafting, clears the selection and leaves the list unchanged.
C6_PointerDownBuildsDraft ==
    [][\A p \in FewPoints :
          handleMouseDown(p) =>
             /\ newShape'.type = tool
             /\ newShape'.x = p.x
             /\ newShape'.y = p.y
             /\ tool = "rectangle" => newShape'.width = 0 /\ newShape'.height = 0
             /\ tool = "circle" => newShape'.radius.sqrt = 0
             /\ tool = "line" => newShape'.x2 = p.x /\ newShape'.y2 = p.y
             /\ newShape'.stroke = strokeColor
             /\ newShape'.strokeWidth = strokeWidth
             /\ newShape'.strokeStyle = strokeStyle
             /\ tool # "line" => newShape'.fill = fillColor
             /\ tool = "line" => "fill" \notin DOMAIN newShape'
             /\ isDrawing'
             /\ selectedId' = NoId
             /\ shapes' = shapes]_vars

\* A line draft of zero length carrying a pending stroke color set in the
\* side panel, started over a list that holds a shape, nothing selected.
C6_Witness ==
    /\ Drafting
    /\ newShape.type = "line"
    /\ newShape.x2 = newShape.x
    /\ newShape.y2 = newShape.y
    /\ newShape.stroke = "#ff0000"
    /\ Len(shapes) = 1
    /\ selectedId = NoId

ListIds == {shapes[i].id : i \in 1..Len(shapes)}

\* Ids handed out so far by the generator.
UsedIds == 1..nextId

\* C7: no two shapes of the list share an id, and the id a pointer-down
\* gives its draft was given to no draft or shape before (the generator
\* being fresh), also after Clear emptied the list.
C7_IdsUniqueNeverReused ==
    /\ [](/\ \A i, j \in 1..Len(shapes) : shapes[i].id = shapes[j].id => i = j
          /\ ListIds \subseteq UsedIds
          /\ newShape # Null => newShape.id \in UsedIds)
    /\ [][\A p \in FewPoints :
             handleMouseDown(p) =>
                /\ newShape'.id \notin UsedIds
                /\ newShape'.id \notin ListIds
                /\ newShape # Null => newShape'.id # newShape.id]_vars

\* Two shapes are in the list.
C7_Witness ==
    /\ Len(shapes) = 2
    /\ shapes[1].id # shapes[2].id

\* C8: Save followed by a restart yields the saved list, shape by shape and
\* in the same order: the entry Save writes loads to the list saved, and a
\* restart loads the entry.
C8_SaveRestartRoundTrip ==
    /\ [][saveDrawing =>
             LET loaded == Load(store')
             IN /\ ~MountThrows(store')
                /\ Len(loaded) = Len(shapes)
                /\ \A i \in 1..Len(shapes) : loaded[i] = shapes[i]]_vars
    /\ [][Restart => store' = store /\ shapes' = Load(store')]_vars

\* Two shapes of different kinds, one of them dragged, are in the list and
\* the list is the one the store entry loads to.
C8_Witness ==
    /\ store # NoEntry
    /\ Len(shapes) = 2
    /\ shapes = Load(store)
    /\ shapes[1].type # shapes[2].type
    /\ shapes[1].x = 1

\* C9: the component starts without an error when the store entry is
\* absent or cannot be parsed.
C9_LoadFailsOpen ==
    (store = NoEntry \/ store = MalformedText) => ~crashed

\* Shape i is clicked while another shape of the list is the selection.
SelectedOther(i) ==
    /\ selectedId # NoId
    /\ selectedId # shapes[i].id
    /\ selectedId \in ListIds

Selected == shapes[CHOOSE j \in 1..Len(shapes) : shapes[j].id = selectedId]

\* Selecting B sets the selection and the pending stroke to B's.
SelectsStroke(B) ==
    /\ selectedId' = B.id
    /\ strokeColor' = B.stroke
    /\ strokeWidth' = B.strokeWidth
    /\ strokeStyle' = B.strokeStyle

\* C10 as claimed: after selecting A and then B the pending style is B's
\* own and no component of it is left over from A, also when B is a line.
C10_PendingStyleIsOnlyBs ==
    [][\A i \in 1..Len(shapes) :
          (onClick(i) /\ SelectedOther(i)) =>
             /\ SelectsStroke(shapes[i])
             /\ shapes[i].type # "line" => fillColor' = shapes[i].fill
             /\ (shapes[i].type = "line" /\ Selected.type # "line") =>
                   fillColor' # Selected.fill]_vars

\* C10 amended: after selecting A and then B the selection is B and the
\* pending stroke color, width and style are B's; the pending fill is B's
\* when B is not a line and stays as it was (A's fill) when B is a line.
C10_PendingStyleFollowsB ==
    [][\A i \in 1..Len(shapes) :
          (onClick(i) /\ SelectedOther(i)) =>
             /\ SelectsStroke(shapes[i])
             /\ fillColor' = IF shapes[i].type # "line" THEN shapes[i].fill
                             ELSE fillColor]_vars

\* A line is selected while the pending fill is the fill, set in the side
\* panel, of another shape of the list.
C10_Witness ==
    /\ selectedId \in ListIds
    /\ Selected.type = "line"
    /\ strokeColor = Selected.stroke
    /\ fillColor = "#ffff00"
    /\ \E i \in 1..Len(shapes) :
          shapes[i].type # "line" /\ shapes[i].fill = fillColor

StyleKeys == {"stroke", "strokeWidth", "strokeStyle", "fill"}

\* C11: ApplyStyle leaves the list as it is when nothing is selected; with
\* a shape selected it sets that shape's stroke color, width and style (and
\* its fill unless it is a line) to the pending style and keeps the shape's
\* id, kind, position and geometry, every other shape, the order of the
\* list, the selection and the store.
C11_ApplyStyleFrame ==
    [][applyStyleToSelected =>
          /\ selectedId = NoId => shapes' = shapes
          /\ Len(shapes') = Len(shapes)
          /\ \A i \in 1..Len(shapes) :
                IF selectedId # NoId /\ shapes[i].id = selectedId
                THEN /\ shapes'[i].stroke = strokeColor
                     /\ shapes'[i].strokeWidth = strokeWidth
                     /\ shapes'[i].strokeStyle = strokeStyle
                     /\ shapes[i].type # "line" => shapes'[i].fill = fillColor
                     /\ DOMAIN shapes'[i] = DOMAIN shapes[i]
                     /\ \A k \in (DOMAIN shapes[i]) \ StyleKeys :
                           shapes'[i][k] = shapes[i][k]
                ELSE shapes'[i] = shapes[i]
          /\ selectedId' = selectedId
          /\ store' = store]_vars

\* The example of the specification: the first shape was selected, the
\* stroke width set to 5 and applied; its other fields are as drawn, and
\* the shape drawn after it kept its stroke width of 2.
C11_Witness ==
    /\ Len(shapes) = 2
    /\ selectedId = shapes[1].id
    /\ strokeWidth = 5
    /\ shapes[1] = [id |-> 1, type |-> "rectangle", x |-> 0, y |-> 0,
                    width |-> 5, height |-> 5, fill |-> "#88ccff",
                    stroke |-> "#000000", strokeWidth |-> 5,
                    strokeStyle |-> "solid"]
    /\ shapes[2].strokeWidth = 2

\* C12: no line of the list carries a fill color, and ApplyStyle on a
\* selected line writes none, whatever the pending fill color is.
C12_LinesCarryNoFill ==
    /\ [](\A i \in Lines : "fill" \notin DOMAIN shapes[i])
    /\ [][applyStyleToSelected =>
             \A i \in 1..Len(shapes) :
                shapes[i].type = "line" => "fill" \notin DOMAIN shapes'[i]]_vars

\* ApplyStyle has acted on a selected line (drawn first with stroke width 2,
\* now 5) while the pending fill is the one copied from the rectangle drawn
\* after it.
C12_Witness ==
    /\ Len(shapes) = 2
    /\ shapes[1].type = "line"
    /\ shapes[1].id = 1
    /\ selectedId = 1
    /\ shapes[1].strokeWidth = 5
    /\ shapes[2].type = "rectangle"
    /\ shapes[2].strokeWidth = 2
    /\ fillColor = shapes[2].fill
    /\ "fill" \notin DOMAIN shapes[1]

\* C13: a draft is held outside the shape list: no shape of the list has
\* the draft's id, pointer-down and pointer-move leave the list as it is,
\* and an id enters the list only as the draft's id at a pointer-up that
\* commits the draft.
C13_DraftOutsideList ==
    /\ [](newShape # Null => newShape.id \notin ListIds)
    /\ [][\A p \in FewPoints :
             (handleMouseDown(p) \/ (handleMouseMove(p) /\ Drafting)) =>
                shapes' = shapes]_vars
    /\ [][\A id \in ListIds' \ ListIds :
             /\ handleMouseUp
             /\ Drafting
             /\ newShape.id = id
             /\ ~ExtentBelow(newShape, 5)]_vars

\* A draft was moved to an extent that will be kept, over a list that
\* holds the shape drawn before it.
C13_Witness ==
    /\ Drafting
    /\ ~ExtentBelow(newShape, 5)
    /\ ListIds = {1}
    /\ newShape.id = 2

\* The draft s has no extent.
ZeroExtent(s) ==
    \/ s.type = "rectangle" /\ s.width = 0 /\ s.height = 0
    \/ s.type = "circle" /\ s.radius = Sqrt(0)
    \/ s.type = "line" /\ s.x2 = s.x /\ s.y2 = s.y

\* C14: a pointer-down on the empty canvas while a draft is in progress
\* starts a new draft at the new point with a new id and no extent; the
\* earlier draft is dropped and its id never enters the list (nor does any
\* id that is neither in the list nor the draft's), and one pointer-up
\* appends at most one shape.
C14_SecondPointerDownAbandons ==
    /\ [][\A p \in Points :
             (handleMouseDown(p) /\ Drafting) =>
                /\ newShape'.id # newShape.id
                /\ newShape'.id \notin UsedIds
                /\ newShape'.x = p.x
                /\ newShape'.y = p.y
                /\ ZeroExtent(newShape')
                /\ isDrawing'
                /\ shapes' = shapes
                /\ newShape.id \notin ListIds']_vars
    /\ [][\A id \in UsedIds :
             (id \notin ListIds /\ (newShape = Null \/ newShape.id # id)) =>
                id \notin ListIds']_vars
    /\ [][handleMouseUp => Len(shapes') <= Len(shapes) + 1]_vars

\* The second draft was started at (5, 5) and has no extent yet; the first
\* draft is not in the list.
C14_Witness ==
    /\ Drafting
    /\ newShape.id = 2
    /\ newShape.x = 5
    /\ newShape.y = 5
    /\ ZeroExtent(newShape)
    /\ shapes = <<>>

\* C15: Clear leaves the shape list empty and the store entry absent,
\* whatever was saved before, and a restart that finds no entry mounts
\* with the empty list.
C15_ClearEmptiesListAndStore ==
    /\ [][clearDrawing =>
             /\ shapes' = <<>>
             /\ store' = NoEntry
             /\ Load(store') = <<>>
             /\ ~MountThrows(store')]_vars
    /\ [][(Restart /\ store = NoEntry) => (shapes' = <<>> /\ ~crashed')]_vars

\* Clear has acted: the list is empty and the entry absent while the
\* selection still names a shape that was in the list, and two shapes were
\* drawn.
C15_Witness ==
    /\ shapes = <<>>
    /\ store = NoEntry
    /\ selectedId = 2
    /\ nextId = 2

\* A handler other than Save and Clear runs.
OtherHandler ==
    \/ downloadDrawing
    \/ handleMouseUp
    \/ applyStyleToSelected
    \/ \E p \in FewPoints : handleMouseDown(p) \/ handleMouseMove(p)
    \/ \E i \in 1..Len(shapes) : onClick(i)
    \/ \E i \in 1..Len(shapes), p \in DragPoints : onDragEnd(i, p)
    \/ \E c \in StrokeColors : setStrokeColor(c)
    \/ \E c \in FillColors : setFillColor(c)
    \/ \E w \in StrokeWidths : setStrokeWidth(w)
    \/ \E s \in StrokeStyles : setStrokeStyle(s)

\* C16: the store entry changes only on Save, which overwrites it with the
\* text of the whole current list, and on Clear, which removes it; Export,
\* the pointer handlers, select, apply-style, drag and the side panel's
\* inputs leave it as it is (no step that changes the entry is a step of
\* theirs), and a restart loads the entry as it stands, without the edits
\* made since it was written.
C16_StoreChangesOnlyOnSaveAndClear ==
    /\ [][store' # store =>
             /\ \/ saveDrawing /\ store' = Stringify(shapes)
                \/ clearDrawing /\ store' = NoEntry
             /\ ~OtherHandler]_vars
    /\ [][Restart => (store' = store /\ shapes' = Load(store))]_vars

\* The entry holds the one shape saved; since then that shape was restyled
\* with a stroke width set in the side panel and a second shape was drawn.
C16_Witness ==
    /\ store # NoEntry
    /\ Len(Load(store)) = 1
    /\ Len(shapes) = 2
    /\ Load(store)[1].strokeWidth = 2
    /\ shapes[1].strokeWidth = 5
    /\ shapes[1].id = Load(store)[1].id

PositionKeys == {"x", "y", "x2", "y2"}

\* C17: dragging a shape of the list changes only that shape's position: a
\* rectangle or circle gets the drop position as x and y; a line has x, y,
\* x2 and y2 shifted by one offset, so x2 - x and y2 - y are kept; the
\* shape's id, kind, style and extent, every other shape, the length and
\* order of the list and the selection stay as they were.
C17_DragMovesOnlyThatShape ==
    [][\A i \in 1..Len(shapes), p \in DragPoints :
          onDragEnd(i, p) =>
             /\ Len(shapes') = Len(shapes)
             /\ \A j \in 1..Len(shapes) : j # i => shapes'[j] = shapes[j]
             /\ LET s == shapes[i]
                    d == shapes'[i]
                IN /\ DOMAIN d = DOMAIN s
                   /\ \A k \in (DOMAIN s) \ PositionKeys : d[k] = s[k]
                   /\ s.type # "line" => d.x = p.x /\ d.y = p.y
                   /\ s.type = "line" =>
                         /\ d.x - s.x = p.x
                         /\ d.x2 - s.x2 = p.x
                         /\ d.y - s.y = p.y
                         /\ d.y2 - s.y2 = p.y
                         /\ d.x2 - d.x = s.x2 - s.x
                         /\ d.y2 - d.y = s.y2 - s.y
             /\ selectedId' = selectedId]_vars

\* A line drawn from (0, 0) to (5, 5) was dragged by (1, 1) and a circle of
\* radius^2 = 50 was dropped at (1, 1), while the circle is the selection.
C17_Witness ==
    /\ Len(shapes) = 2
    /\ shapes[1].type = "line"
    /\ shapes[1].x = 1
    /\ shapes[1].y = 1
    /\ shapes[1].x2 = 6
    /\ shapes[1].y2 = 6
    /\ shapes[2].type = "circle"
    /\ shapes[2].x = 1
    /\ shapes[2].y = 1
    /\ shapes[2].radius = Sqrt(50)
    /\ selectedId = shapes[2].id

\* C18: whenever a selection is set, it is the id of a shape of the list.
C18_SelectionInList ==
    selectedId # NoId => selectedId \in ListIds

\* C19: the drafting flag is set exactly when a draft exists, and a
\* pointer-up that finds a draft leaves the flag unset and no draft,
\* whether it committed or discarded the draft.
C19_DraftingFlagMatchesDraft ==
    /\ [](isDrawing <=> newShape # Null)
    /\ [][(handleMouseUp /\ newShape # Null) =>
             (~isDrawing' /\ newShape' = Null)]_vars

\* A pointer-up committed the first draft: it is in the list, the flag is
\* unset and no draft exists.
C19_Witness ==
    /\ nextId = 1
    /\ ListIds = {1}
    /\ ~isDrawing
    /\ newShape = Null

====
